---- MODULE Spec2Model ----
(***************************************************************************)
(* State-machine model of the go-videoconf signalling server:              *)
(*   - the websocket relay  (server/signalling-server/main.go, wshandler)  *)
(*   - the session registry (controllers: CreateSession, CreateSocket,     *)
(*     ConnectSession, GetSession)                                         *)
(* Every connection handler is a goroutine; the handlers share the global  *)
(* map `sockets` and the per-room member maps without any lock, so each    *)
(* read and each write of those maps is a separate atomic step here.       *)
(***************************************************************************)
EXTENDS Integers, Sequences, FiniteSets, TLC

\* ------------------------------------------------------------------------
\* Bounds and universes
\* ------------------------------------------------------------------------
\* total number of frames the relay reads, over all connections
MaxFrames == 2

\* total number of frames the relay reads in PairSpec, the one of PairInit
\* included
MaxPairFrames == 3

\* room keys: the :socket path value of /ws/:socket
Rooms == {"A", "B"}

\* websocket connections (one wshandler goroutine each)
Conns == {"c1", "c2", "c3"}

\* the room each client of Spec asks for: two participants of room A and one
\* of room B
Asked == [c \in Conns |-> IF c = "c3" THEN {"B"} ELSE {"A"}]

\* the connections of PairSpec
Pair == {"c1", "c2"}

\* the order in which the server accepts the connections
Order(c) == CASE c = "c1" -> 1 [] c = "c2" -> 2 [] OTHER -> 3

\* participant ids a client may put into userID / to
Users == {"a", "b"}

\* the userID of the first frame the relay reads
FirstUser == "a"

\* a JSON field that does not occur in the frame
ABSENT == "absent"

\* a nil map / nil *Connection
NIL == "nil"

\* ------------------------------------------------------------------------
\* interfaces.Message and its JSON decoding
\* ------------------------------------------------------------------------
\* the zero value of interfaces.Message (`var message interfaces.Message`)
Message == [Type |-> "", UserID |-> "", Description |-> "", Candidate |-> "", To |-> ""]

\* one field of json.Unmarshal into an existing struct: a key that is absent
\* from the JSON text leaves the struct field as it was
Field(old, new) == IF new = ABSENT THEN old ELSE new

\* conn.ReadJSON(&message): decode frame f into the struct value m
ReadJSON(m, f) ==
    [Type        |-> Field(m.Type, f.type),
     UserID      |-> Field(m.UserID, f.userID),
     Description |-> Field(m.Description, f.description),
     Candidate   |-> Field(m.Candidate, f.candidate),
     To          |-> Field(m.To, f.to)]

\* the frames a client may send
Frames ==
    [type        : {"connect", "disconnect", "offer"},
     userID      : Users,
     description : {ABSENT},
     candidate   : {ABSENT},
     to          : {ABSENT}]

\* a participant id that no client of the model uses as its userID
Away == "z"

\* the frames of the clients of PairSpec, in the shapes the SDK sends:
\* connect and disconnect carry no `to`, an offer names its peer
PairFrames ==
    [type        : {"connect", "disconnect"},
     userID      : Users,
     description : {ABSENT},
     candidate   : {ABSENT},
     to          : {ABSENT}]
    \cup
    [type        : {"offer"},
     userID      : Users,
     description : {"X"},
     candidate   : {ABSENT},
     to          : {Away}]

VARIABLES
    sockets,    \* global: room key -> id of its member map, or NIL
    heap,       \* member maps: map id -> [participant id -> connection or NIL]
    transport,  \* connection -> "none" | "open" | "broken" | "closed"
    wire,       \* connection -> sequence of messages written to it and delivered
    pc,         \* connection -> position of its wshandler
    socket,     \* wshandler parameter: the room key of the connection
    clients,    \* wshandler local: id of the member map it works on
    message,    \* wshandler local: the interfaces.Message struct it decodes into
    cur,        \* the WriteJSON call the handler is inside of, if any
    frame,      \* the frame the handler is processing, decoded on its own
    seq,        \* how many frames the handler has read: the number of the current one
    snap,       \* range loop: keys present when the loop started
    visited,    \* range loop: keys produced so far
    nframes,    \* frames read so far, over all connections
    left,       \* history: the last frame of the connection was a disconnect
                \* and the handler has finished with it
    after       \* history, while a frame is processed: the connections that
                \* had left when the handler read it

\* the session registry: the two MongoDB collections of database "vidchat"
\* and the HTTP exchange of the last request
VARIABLES
    sessionsCol, \* collection "sessions": sequence of interfaces.Session documents
    socketsCol,  \* collection "sockets": sequence of interfaces.Socket documents
    req,         \* the last request the Session API served
    resp,        \* the ctx.JSON / ctx.Status calls of its handler, in order
    created      \* history: the create-session calls that returned a handle

\* the users service: its MongoDB collection and the HTTP exchange of the
\* last request it served
VARIABLES
    usersCol,    \* collection "users": sequence of database.UserModel documents
    newId,       \* the number of ObjectIds handed out for user documents
    call,        \* the last request the users service served
    reply        \* the ctx.JSON call of its handler

\* the clients: the fields of the VideoconfSDK object behind a connection
\* and the frames its WebSocket has sent
VARIABLES
    sdk,         \* connection -> the client's state (see NoClient)
    outbox,      \* connection -> the frames the client has sent, in order
    got          \* connection -> how many messages of wire the client has handled

relay == <<sockets, heap, transport, wire, pc, socket, clients, message, cur,
           frame, seq, snap, visited, nframes, left, after>>

registry == <<sessionsCol, socketsCol, req, resp, created>>

accounts == <<usersCol, newId, call, reply>>

client == <<sdk, outbox, got>>

vars == <<relay, registry, accounts, client>>

\* ------------------------------------------------------------------------
\* Member maps (map[string]*interfaces.Connection)
\* ------------------------------------------------------------------------
\* the keys a member map can hold; "" is the userID of a frame without one
Keys == Users \cup {""}

\* make(map[string]*interfaces.Connection)
EmptyMap == [u \in Keys |-> NIL]

\* the keys a range over the map can produce
Present(m) == {u \in Keys : m[u] # NIL}

\* delete(clients, user)
Delete(m, user) == [m EXCEPT ![user] = NIL]

\* a relay that keeps one member map for all rooms
RoomKeyShared(s) == "A"

\* the room key under which wshandler looks up and stores the member map
RoomKey(s) == s

\* ------------------------------------------------------------------------
\* Writes to a websocket
\* ------------------------------------------------------------------------
\* a writer that puts the newest message in front of the pending ones
WriteJSONFirst(w, e) == <<e>> \o w

\* the bytes of one WriteJSON follow those already written to the socket
WriteJSON(w, e) == Append(w, e)

\* the handler is inside no WriteJSON call
NoWrite == [to |-> NIL, key |-> "", via |-> "", raced |-> FALSE]

\* the handlers that are inside a WriteJSON call on the socket of connection d
Writers(d) == {x \in Conns : cur[x].to = d}

\* c.mu of the Connection stored under key user of member map m is held: some
\* handler is inside Send on that Connection
Locked(m, user) ==
    \E x \in Conns : cur[x].to # NIL /\ cur[x].via = "send"
                     /\ clients[x] = m /\ cur[x].key = user

\* the handler of c enters Socket.WriteJSON on the socket of d; a write that
\* is already in progress there now runs concurrently with it
BeginWrite(c, d, user, via) ==
    [x \in Conns |->
        IF x = c THEN [to |-> d, key |-> user, via |-> via, raced |-> Writers(d) \ {c} # {}]
        ELSE IF cur[x].to = d THEN [cur[x] EXCEPT !.raced = TRUE]
        ELSE cur[x]]

\* the outcomes of the WriteJSON call the handler of c is inside of: "err" on
\* a closed socket, "ok" otherwise; a write that ran concurrently with another
\* one on the same socket can also leave a corrupt frame ("torn") or panic
\* ("concurrent write to websocket connection")
WriteOutcomes(c) ==
    IF transport[cur[c].to] # "open" THEN {"err"}
    ELSE IF cur[c].raced THEN {"ok", "torn", "panic"}
    ELSE {"ok"}

\* what the peer receives of a write that returned nil
Delivered(d, e) ==
    IF transport[d] = "open" THEN [wire EXCEPT ![d] = WriteJSON(wire[d], e)] ELSE wire

\* a session_joined sent to the connection that is bound under the id
AckTargetBound(c, m) ==
    IF heap[clients[c]][m.UserID] = NIL THEN c ELSE heap[clients[c]][m.UserID]

\* the connection the session_joined reply is written to: conn.WriteJSON
AckTarget(c, m) == c

\* the record of one write by the handler of c to connection d: the message
\* written, the frame it came from, and the key under which d was reached
Entry(c, d, kind, key, m, outcome) ==
    [kind |-> kind, from |-> c, seq |-> seq[c], key |-> key, msg |-> m,
     orig |-> frame[c], late |-> left[d] /\ d \in after[c],
     torn |-> outcome = "torn"]

\* no client: kind is "sdk" for a VideoconfSDK object and "raw" for any other
\* WebSocket client; ready is the readyState of its WebSocket; socket tells
\* whether this.socket holds it
NoClient ==
    [kind |-> "none", ready |-> "none", socket |-> FALSE, localStream |-> FALSE,
     peerConnections |-> {}, remoteStreams |-> {}]

\* the document initData inserts into the empty users collection
Admin == [ID |-> 1, Name |-> "admin", Password |-> "admin"]

\* ------------------------------------------------------------------------
\* Initial state
\* ------------------------------------------------------------------------
Init ==
    /\ sockets = [r \in Rooms |-> NIL]
    /\ heap = [c \in Conns |-> EmptyMap]
    /\ transport = [c \in Conns |-> "none"]
    /\ wire = [c \in Conns |-> <<>>]
    /\ pc = [c \in Conns |-> "idle"]
    /\ socket = [c \in Conns |-> ""]
    /\ clients = [c \in Conns |-> NIL]
    /\ message = [c \in Conns |-> Message]
    /\ cur = [c \in Conns |-> NoWrite]
    /\ frame = [c \in Conns |-> Message]
    /\ seq = [c \in Conns |-> 0]
    /\ snap = [c \in Conns |-> {}]
    /\ visited = [c \in Conns |-> {}]
    /\ nframes = 0
    /\ left = [c \in Conns |-> FALSE]
    /\ after = [c \in Conns |-> {}]
    /\ sessionsCol = <<>>
    /\ socketsCol = <<>>
    /\ req = [op |-> "none"]
    /\ resp = <<>>
    /\ created = <<>>
    /\ usersCol = <<Admin>>
    /\ newId = 1
    /\ call = [op |-> "none"]
    /\ reply = [status |-> 0]
    /\ sdk = [c \in Conns |-> NoClient]
    /\ outbox = [c \in Conns |-> <<>>]
    /\ got = [c \in Conns |-> 0]

\* ------------------------------------------------------------------------
\* wshandler, one action per step
\* ------------------------------------------------------------------------
\* GET /ws/:socket, upgrader.Upgrade and `if sockets[socket] == nil`;
\* connections are named in the order the server accepts them
Upgrade(c, r) ==
    /\ pc[c] = "idle"
    /\ \A d \in Conns : Order(d) < Order(c) => pc[d] # "idle"
    /\ pc' = [pc EXCEPT ![c] = IF sockets[RoomKey(r)] = NIL THEN "make" ELSE "load"]
    /\ socket' = [socket EXCEPT ![c] = r]
    /\ transport' = [transport EXCEPT ![c] = "open"]
    /\ UNCHANGED <<sockets, heap, wire, clients, message, cur, frame, seq, snap,
                   visited, nframes, left, after>>
    /\ UNCHANGED registry
    /\ UNCHANGED accounts
    /\ UNCHANGED client

\* sockets[socket] = make(map[string]*interfaces.Connection)
MakeRoom(c) ==
    /\ pc[c] = "make"
    /\ sockets' = [sockets EXCEPT ![RoomKey(socket[c])] = c]
    /\ heap' = [heap EXCEPT ![c] = EmptyMap]
    /\ pc' = [pc EXCEPT ![c] = "load"]
    /\ UNCHANGED <<transport, wire, socket, clients, message, cur, frame, seq,
                   snap, visited, nframes, left, after>>
    /\ UNCHANGED registry
    /\ UNCHANGED accounts
    /\ UNCHANGED client

\* clients := sockets[socket]
LoadClients(c) ==
    /\ pc[c] = "load"
    /\ clients' = [clients EXCEPT ![c] = sockets[RoomKey(socket[c])]]
    /\ pc' = [pc EXCEPT ![c] = "read"]
    /\ UNCHANGED <<sockets, heap, transport, wire, socket, message, cur, frame,
                   seq, snap, visited, nframes, left, after>>
    /\ UNCHANGED registry
    /\ UNCHANGED accounts
    /\ UNCHANGED client

\* err = conn.ReadJSON(&message) with err == nil, then
\* `if clients[message.UserID] == nil`; participant ids are named in the
\* order in which the relay first sees them
Read(c, f, max) ==
    /\ pc[c] = "read"
    /\ transport[c] = "open"
    /\ nframes < max
    /\ nframes = 0 => f.userID = FirstUser
    /\ LET m == ReadJSON(message[c], f) IN
       /\ message' = [message EXCEPT ![c] = m]
       /\ pc' = [pc EXCEPT ![c] =
                   IF heap[clients[c]][m.UserID] = NIL THEN "insert" ELSE "switch"]
    /\ frame' = [frame EXCEPT ![c] = ReadJSON(Message, f)]
    /\ nframes' = nframes + 1
    /\ seq' = [seq EXCEPT ![c] = @ + 1]
    /\ left' = [left EXCEPT ![c] = FALSE]
    /\ after' = [after EXCEPT ![c] = {d \in Conns : left[d]}]
    /\ UNCHANGED <<sockets, heap, transport, wire, socket, clients, cur, snap,
                   visited>>
    /\ UNCHANGED registry
    /\ UNCHANGED accounts
    /\ UNCHANGED client

\* the handler of c returns: deferred conn.Close(); its locals are gone
Return(c) ==
    /\ pc' = [pc EXCEPT ![c] = "done"]
    /\ transport' = [transport EXCEPT ![c] = "closed"]
    /\ message' = [message EXCEPT ![c] = Message]
    /\ frame' = [frame EXCEPT ![c] = Message]
    /\ clients' = [clients EXCEPT ![c] = NIL]
    /\ cur' = [cur EXCEPT ![c] = NoWrite]
    /\ snap' = [snap EXCEPT ![c] = {}]
    /\ visited' = [visited EXCEPT ![c] = {}]
    /\ after' = [after EXCEPT ![c] = {}]

\* err = conn.ReadJSON(&message) with err != nil: break, deferred conn.Close()
ReadErr(c) ==
    /\ pc[c] = "read"
    /\ Return(c)
    /\ UNCHANGED <<sockets, heap, wire, socket, seq, nframes, left>>
    /\ UNCHANGED registry
    /\ UNCHANGED accounts
    /\ UNCHANGED client

\* connection.Socket = conn; clients[message.UserID] = connection
BindInsert(c) ==
    /\ pc[c] = "insert"
    /\ heap' = [heap EXCEPT ![clients[c]][message[c].UserID] = c]
    /\ pc' = [pc EXCEPT ![c] = "switch"]
    /\ UNCHANGED <<sockets, transport, wire, socket, clients, message, cur, frame,
                   seq, snap, visited, nframes, left, after>>
    /\ UNCHANGED registry
    /\ UNCHANGED accounts
    /\ UNCHANGED client

\* case "connect": message.Type = "session_joined"; conn.WriteJSON(message)
\* begins, without any lock
Connect(c) ==
    /\ pc[c] = "switch"
    /\ message[c].Type = "connect"
    /\ LET m == [message[c] EXCEPT !.Type = "session_joined"] IN
       /\ message' = [message EXCEPT ![c] = m]
       /\ cur' = BeginWrite(c, AckTarget(c, m), m.UserID, "direct")
    /\ pc' = [pc EXCEPT ![c] = "ack"]
    /\ UNCHANGED <<sockets, heap, transport, wire, socket, clients, frame, seq,
                   snap, visited, nframes, left, after>>
    /\ UNCHANGED registry
    /\ UNCHANGED accounts
    /\ UNCHANGED client

\* conn.WriteJSON(message) of case "connect" returns: delete the binding on
\* error; a panic ends the handler
Acked(c) ==
    /\ pc[c] = "ack"
    /\ \E o \in WriteOutcomes(c) :
         IF o = "panic"
         THEN /\ Return(c)
              /\ UNCHANGED <<sockets, heap, wire, socket, seq, nframes, left>>
         ELSE /\ IF o = "err"
                 THEN /\ wire' = wire
                      /\ heap' = [heap EXCEPT ![clients[c]] = Delete(@, message[c].UserID)]
                 ELSE /\ wire' = Delivered(cur[c].to,
                                    Entry(c, cur[c].to, "ack", cur[c].key, message[c], o))
                      /\ heap' = heap
              /\ pc' = [pc EXCEPT ![c] = "read"]
              /\ cur' = [cur EXCEPT ![c] = NoWrite]
              /\ after' = [after EXCEPT ![c] = {}]
                        /\ UNCHANGED <<sockets, transport, socket, clients, message, frame,
                             seq, snap, visited, nframes, left>>
    /\ UNCHANGED registry
    /\ UNCHANGED accounts
    /\ UNCHANGED client

\* case "disconnect" / default: the range statement starts
Range(c) ==
    /\ pc[c] = "switch"
    /\ message[c].Type # "connect"
    /\ pc' = [pc EXCEPT ![c] = IF message[c].Type = "disconnect" THEN "dloop" ELSE "floop"]
    /\ snap' = [snap EXCEPT ![c] = Present(heap[clients[c]])]
    /\ visited' = [visited EXCEPT ![c] = {}]
    /\ UNCHANGED <<sockets, heap, transport, wire, socket, clients, message, cur,
                   frame, seq, nframes, left, after>>
    /\ UNCHANGED registry
    /\ UNCHANGED accounts
    /\ UNCHANGED client

\* default case, one iteration of `for user, client := range clients` up to
\* the call of Socket.WriteJSON inside client.Send: the key is compared with
\* message.UserID and client.mu is locked
Forward(c, user) ==
    /\ pc[c] = "floop"
    /\ user \in Present(heap[clients[c]]) \ visited[c]
    /\ visited' = [visited EXCEPT ![c] = @ \cup {user}]
    /\ IF user # message[c].UserID
       THEN /\ ~Locked(clients[c], user)
            /\ cur' = BeginWrite(c, heap[clients[c]][user], user, "send")
            /\ pc' = [pc EXCEPT ![c] = "fsend"]
       ELSE /\ cur' = cur
            /\ pc' = pc
    /\ UNCHANGED <<sockets, heap, transport, wire, socket, clients, message,
                   frame, seq, snap, nframes, left, after>>
    /\ UNCHANGED registry
    /\ UNCHANGED accounts
    /\ UNCHANGED client

\* default case: client.Send(message) returns and the mutex is released; on
\* error delete(clients, user); a panic ends the handler
Forwarded(c) ==
    /\ pc[c] = "fsend"
    /\ \E o \in WriteOutcomes(c) :
         IF o = "panic"
         THEN /\ Return(c)
              /\ UNCHANGED <<sockets, heap, wire, socket, seq, nframes, left>>
         ELSE /\ IF o = "err"
                 THEN /\ wire' = wire
                      /\ transport' = transport
                      /\ heap' = [heap EXCEPT ![clients[c]] = Delete(@, cur[c].key)]
                 ELSE /\ wire' = Delivered(cur[c].to,
                                    Entry(c, cur[c].to, "fwd", cur[c].key, message[c], o))
                      /\ transport' = transport
                      /\ heap' = heap
              /\ pc' = [pc EXCEPT ![c] = "floop"]
              /\ cur' = [cur EXCEPT ![c] = NoWrite]
              /\ UNCHANGED <<sockets, socket, clients, message, frame, seq, snap,
                             visited, nframes, left, after>>
    /\ UNCHANGED registry
    /\ UNCHANGED accounts
    /\ UNCHANGED client

\* case "disconnect", one iteration of `for user, client := range clients`
\* up to the call of Socket.WriteJSON inside client.Send
ForwardLeave(c, user) ==
    /\ pc[c] = "dloop"
    /\ user \in Present(heap[clients[c]]) \ visited[c]
    /\ visited' = [visited EXCEPT ![c] = @ \cup {user}]
    /\ IF user # message[c].UserID
       THEN /\ ~Locked(clients[c], user)
            /\ cur' = BeginWrite(c, heap[clients[c]][user], user, "send")
            /\ pc' = [pc EXCEPT ![c] = "dsend"]
       ELSE /\ cur' = cur
            /\ pc' = pc
    /\ UNCHANGED <<sockets, heap, transport, wire, socket, clients, message,
                   frame, seq, snap, nframes, left, after>>
    /\ UNCHANGED registry
    /\ UNCHANGED accounts
    /\ UNCHANGED client

\* case "disconnect": client.Send(message) returns and the mutex is
\* released; on error client.Socket.Close() and delete(clients, user); a panic
\* ends the handler
ForwardedLeave(c) ==
    /\ pc[c] = "dsend"
    /\ \E o \in WriteOutcomes(c) :
         IF o = "panic"
         THEN /\ Return(c)
              /\ UNCHANGED <<sockets, heap, wire, socket, seq, nframes, left>>
         ELSE /\ IF o = "err"
                 THEN /\ wire' = wire
                      /\ transport' = [transport EXCEPT ![cur[c].to] = "closed"]
                      /\ heap' = [heap EXCEPT ![clients[c]] = Delete(@, cur[c].key)]
                 ELSE /\ wire' = Delivered(cur[c].to,
                                    Entry(c, cur[c].to, "fwd", cur[c].key, message[c], o))
                      /\ transport' = transport
                      /\ heap' = heap
              /\ pc' = [pc EXCEPT ![c] = "dloop"]
              /\ cur' = [cur EXCEPT ![c] = NoWrite]
              /\ UNCHANGED <<sockets, socket, clients, message, frame, seq, snap,
                             visited, nframes, left, after>>
    /\ UNCHANGED registry
    /\ UNCHANGED accounts
    /\ UNCHANGED client

\* a range that also ends as soon as a send has failed and its key was deleted
RangeBroken(c) ==
    \/ (snap[c] \cap Present(heap[clients[c]])) \ visited[c] = {}
    \/ \E u \in visited[c] : heap[clients[c]][u] = NIL

\* the range is exhausted: every key it had to produce was produced or deleted
RangeDone(c) == (snap[c] \cap Present(heap[clients[c]])) \ visited[c] = {}

\* end of the default case: back to ReadJSON
EndForward(c) ==
    /\ pc[c] = "floop"
    /\ RangeDone(c)
    /\ pc' = [pc EXCEPT ![c] = "read"]
    /\ snap' = [snap EXCEPT ![c] = {}]
    /\ visited' = [visited EXCEPT ![c] = {}]
    /\ after' = [after EXCEPT ![c] = {}]
    /\ UNCHANGED <<sockets, heap, transport, wire, socket, clients, message, cur,
                   frame, seq, nframes, left>>
    /\ UNCHANGED registry
    /\ UNCHANGED accounts
    /\ UNCHANGED client

\* end of case "disconnect": delete(clients, message.UserID)
EndLeave(c) ==
    /\ pc[c] = "dloop"
    /\ RangeDone(c)
    /\ heap' = [heap EXCEPT ![clients[c]] = Delete(@, message[c].UserID)]
    /\ left' = [left EXCEPT ![c] = TRUE]
    /\ pc' = [pc EXCEPT ![c] = "read"]
    /\ snap' = [snap EXCEPT ![c] = {}]
    /\ visited' = [visited EXCEPT ![c] = {}]
    /\ after' = [after EXCEPT ![c] = {}]
    /\ UNCHANGED <<sockets, transport, wire, socket, clients, message, cur, frame,
                   seq, nframes>>
    /\ UNCHANGED registry
    /\ UNCHANGED accounts
    /\ UNCHANGED client

\* the next step of the handler of c writes the member map it works on
MapWrite(c) ==
    \/ pc[c] = "insert"
    \/ pc[c] = "dloop" /\ RangeDone(c)
    \/ pc[c] \in {"ack", "fsend", "dsend"} /\ transport[cur[c].to] # "open"

\* the next step of the handler of c reads or writes the member map; a
\* handler in ReadJSON looks its sender up as soon as a frame arrives
MapAccess(c) ==
    \/ MapWrite(c)
    \/ pc[c] \in {"floop", "dloop"}
    \/ pc[c] = "switch" /\ message[c].Type # "connect"
    \/ pc[c] = "read" /\ transport[c] = "open"

\* two handlers are about to access one map, one of them writing it: the
\* member map of their room, or the global map sockets at admission
MapRace ==
    \E c, d \in Conns :
        /\ c # d
        /\ \/ clients[c] # NIL /\ clients[c] = clients[d] /\ MapWrite(c) /\ MapAccess(d)
           \/ pc[c] = "make" /\ pc[d] \in {"make", "load"}

\* the Go runtime detects the unsynchronised map access ("fatal error:
\* concurrent map writes", "concurrent map iteration and map write"): the
\* process exits, with all its connections and maps
Throw ==
    /\ MapRace
    /\ sockets' = [r \in Rooms |-> NIL]
    /\ heap' = [c \in Conns |-> EmptyMap]
    /\ transport' = [c \in Conns |-> IF transport[c] = "none" THEN "none" ELSE "closed"]
    /\ pc' = [c \in Conns |-> "done"]
    /\ clients' = [c \in Conns |-> NIL]
    /\ message' = [c \in Conns |-> Message]
    /\ cur' = [c \in Conns |-> NoWrite]
    /\ frame' = [c \in Conns |-> Message]
    /\ snap' = [c \in Conns |-> {}]
    /\ visited' = [c \in Conns |-> {}]
    /\ socket' = [c \in Conns |-> ""]
    /\ seq' = [c \in Conns |-> 0]
    /\ left' = [c \in Conns |-> FALSE]
    /\ after' = [c \in Conns |-> {}]
    /\ UNCHANGED <<wire, nframes>>
    /\ UNCHANGED registry
    /\ UNCHANGED accounts
    /\ UNCHANGED client

\* the steps of the handlers of connections C, where connection c is opened
\* for a room of R[c] and the clients send frames of F, at most max of them
Step(C, R, F, max) ==
    \/ \E c \in C : \E r \in R[c] : Upgrade(c, r)
    \/ \E c \in C : MakeRoom(c)
    \/ \E c \in C : LoadClients(c)
    \/ \E c \in C, f \in F : Read(c, f, max)
    \/ \E c \in C : ReadErr(c)
    \/ \E c \in C : BindInsert(c)
    \/ \E c \in C : Connect(c)
    \/ \E c \in C : Acked(c)
    \/ \E c \in C : Range(c)
    \/ \E c \in C, u \in Keys : Forward(c, u)
    \/ \E c \in C : Forwarded(c)
    \/ \E c \in C, u \in Keys : ForwardLeave(c, u)
    \/ \E c \in C : ForwardedLeave(c)
    \/ \E c \in C : EndForward(c)
    \/ \E c \in C : EndLeave(c)
    \/ Throw

Next == Step(Conns, Asked, Frames, MaxFrames)

Spec == Init /\ [][Next]_vars

\* the frame with which the first participant of PairSpec has joined
Hello == [Type |-> "connect", UserID |-> FirstUser, Description |-> "",
          Candidate |-> "", To |-> ""]

\* the session_joined reply to it
Welcome == [Hello EXCEPT !.Type = "session_joined"]

\* a state of Spec: connection c1 has opened room A and has joined it as the
\* first participant (Upgrade, MakeRoom, LoadClients, Read, BindInsert,
\* Connect, Acked), and nothing else has happened
PairInit ==
    /\ sockets = [r \in Rooms |-> IF r = "A" THEN "c1" ELSE NIL]
    /\ heap = [c \in Conns |-> IF c = "c1" THEN [EmptyMap EXCEPT ![FirstUser] = "c1"]
                                ELSE EmptyMap]
    /\ transport = [c \in Conns |-> IF c = "c1" THEN "open" ELSE "none"]
    /\ wire = [c \in Conns |->
                 IF c = "c1"
                 THEN <<[kind |-> "ack", from |-> "c1", seq |-> 1, key |-> FirstUser,
                         msg |-> Welcome, orig |-> Hello, late |-> FALSE,
                         torn |-> FALSE]>>
                 ELSE <<>>]
    /\ pc = [c \in Conns |-> IF c = "c1" THEN "read" ELSE "idle"]
    /\ socket = [c \in Conns |-> IF c = "c1" THEN "A" ELSE ""]
    /\ clients = [c \in Conns |-> IF c = "c1" THEN "c1" ELSE NIL]
    /\ message = [c \in Conns |-> IF c = "c1" THEN Welcome ELSE Message]
    /\ cur = [c \in Conns |-> NoWrite]
    /\ frame = [c \in Conns |-> IF c = "c1" THEN Hello ELSE Message]
    /\ seq = [c \in Conns |-> IF c = "c1" THEN 1 ELSE 0]
    /\ snap = [c \in Conns |-> {}]
    /\ visited = [c \in Conns |-> {}]
    /\ nframes = 1
    /\ left = [c \in Conns |-> FALSE]
    /\ after = [c \in Conns |-> {}]
    /\ sessionsCol = <<>>
    /\ socketsCol = <<>>
    /\ req = [op |-> "none"]
    /\ resp = <<>>
    /\ created = <<>>
    /\ usersCol = <<Admin>>
    /\ newId = 1
    /\ call = [op |-> "none"]
    /\ reply = [status |-> 0]
    /\ sdk = [c \in Conns |-> NoClient]
    /\ outbox = [c \in Conns |-> <<>>]
    /\ got = [c \in Conns |-> 0]

\* the rooms the clients of PairSpec ask for: the second connection is
\* opened for the room of the first or for another one
PairAsked == [c \in Pair |-> IF c = "c1" THEN {"A"} ELSE Rooms]

\* two connections, the first of them a member of room A, whose clients send
\* offers that name their peer
PairNext == Step(Pair, PairAsked, PairFrames, MaxPairFrames)

PairSpec == PairInit /\ [][PairNext]_vars

\* frames the relay reads in TrioSpec after the two joins of TrioInit
MaxTrioFrames == 3

\* the participant ids of the two members of TrioInit
Member == [c \in Pair |-> IF c = "c1" THEN FirstUser ELSE "b"]

\* a state of Spec: connections c1 and c2 have been opened for room A and
\* have joined it, one after the other, under their own participant ids
\* (each of them Upgrade, LoadClients, Read, BindInsert, Connect, Acked), and
\* nothing else has happened
TrioInit ==
    /\ sockets = [r \in Rooms |-> IF r = "A" THEN "c1" ELSE NIL]
    /\ heap = [c \in Conns |->
                 IF c = "c1"
                 THEN [u \in Keys |-> IF u = Member["c1"] THEN "c1"
                                      ELSE IF u = Member["c2"] THEN "c2" ELSE NIL]
                 ELSE EmptyMap]
    /\ transport = [c \in Conns |-> IF c \in Pair THEN "open" ELSE "none"]
    /\ wire = [c \in Conns |->
                 IF c \in Pair
                 THEN <<[kind |-> "ack", from |-> c, seq |-> 1, key |-> Member[c],
                         msg |-> [Welcome EXCEPT !.UserID = Member[c]],
                         orig |-> [Hello EXCEPT !.UserID = Member[c]],
                         late |-> FALSE, torn |-> FALSE]>>
                 ELSE <<>>]
    /\ pc = [c \in Conns |-> IF c \in Pair THEN "read" ELSE "idle"]
    /\ socket = [c \in Conns |-> IF c \in Pair THEN "A" ELSE ""]
    /\ clients = [c \in Conns |-> IF c \in Pair THEN "c1" ELSE NIL]
    /\ message = [c \in Conns |->
                    IF c \in Pair THEN [Welcome EXCEPT !.UserID = Member[c]] ELSE Message]
    /\ cur = [c \in Conns |-> NoWrite]
    /\ frame = [c \in Conns |->
                  IF c \in Pair THEN [Hello EXCEPT !.UserID = Member[c]] ELSE Message]
    /\ seq = [c \in Conns |-> IF c \in Pair THEN 1 ELSE 0]
    /\ snap = [c \in Conns |-> {}]
    /\ visited = [c \in Conns |-> {}]
    /\ nframes = 2
    /\ left = [c \in Conns |-> FALSE]
    /\ after = [c \in Conns |-> {}]
    /\ sessionsCol = <<>>
    /\ socketsCol = <<>>
    /\ req = [op |-> "none"]
    /\ resp = <<>>
    /\ created = <<>>
    /\ usersCol = <<Admin>>
    /\ newId = 1
    /\ call = [op |-> "none"]
    /\ reply = [status |-> 0]
    /\ sdk = [c \in Conns |-> NoClient]
    /\ outbox = [c \in Conns |-> <<>>]
    /\ got = [c \in Conns |-> 0]

\* the rooms the clients of TrioSpec ask for: the third connection is opened
\* for the room of the two members or for another one
TrioAsked == [c \in Conns |-> IF c \in Pair THEN {"A"} ELSE Rooms]

\* the frames of the clients of TrioSpec: none carries a userID, so that
\* every connection keeps the participant id its struct already holds, and
\* the third connection is known under the empty id
TrioFrames ==
    [type        : {"connect", "disconnect", "offer"},
     userID      : {ABSENT},
     description : {ABSENT},
     candidate   : {ABSENT},
     to          : {ABSENT}]

\* the network path of connection c breaks: the relay's socket is not closed,
\* writes to it fail from now on and its ReadJSON will fail
Break(c) ==
    /\ transport[c] = "open"
    /\ transport' = [transport EXCEPT ![c] = "broken"]
    /\ UNCHANGED <<sockets, heap, wire, pc, socket, clients, message, cur, frame,
                   seq, snap, visited, nframes, left, after>>
    /\ UNCHANGED registry
    /\ UNCHANGED accounts
    /\ UNCHANGED client

\* three connections, two of them members of room A
TrioNext ==
    \/ Step(Conns, TrioAsked, TrioFrames, MaxTrioFrames)
    \/ \E c \in Conns : Break(c)

TrioSpec == TrioInit /\ [][TrioNext]_vars

\* ------------------------------------------------------------------------
\* The client SDK (videoconf-sdk.ts) on top of the relay
\* ------------------------------------------------------------------------
\* frames the relay reads at most in SdkSpec
MaxSdkFrames == 5

\* frames a client that is not the SDK sends at most
MaxRawFrames == 1

\* this.currentUserId of the client behind connection c
currentUserId(c) == Member[c]

\* a WebRTCMessage as JSON.stringify writes it: `to` is left out when the
\* object has none
WebRTCMessage(type, userID, description, to) ==
    [type |-> type, userID |-> userID, description |-> description,
     candidate |-> "", to |-> to]

\* the frame a client that is not the SDK sends: an offer for its peer
RawFrames(c) ==
    {WebRTCMessage("offer", currentUserId(c), "X", currentUserId(d)) : d \in Pair \ {c}}

\* sendMessage(message) by a client in state st with frames box sent so far
sendMessage(st, box, m) ==
    IF st.socket /\ st.ready = "open" THEN Append(box, m) ELSE box

\* a cleanup that closes the peer connections and leaves them in the map
cleanupKeep(st) ==
    [st EXCEPT !.remoteStreams = {},
               !.localStream = FALSE,
               !.ready = IF st.socket /\ st.ready \in {"connecting", "open"}
                         THEN "closing" ELSE st.ready,
               !.socket = FALSE]

\* cleanup(): close and drop every peer connection, drop the remote
\* streams, stop the local stream, close and drop the socket
cleanup(st) ==
    [st EXCEPT !.peerConnections = {},
               !.remoteStreams = {},
               !.localStream = FALSE,
               !.ready = IF st.socket /\ st.ready \in {"connecting", "open"}
                         THEN "closing" ELSE st.ready,
               !.socket = FALSE]

\* connectToSignallingServer: new WebSocket(wsUrl); a client that is not the
\* SDK opens its WebSocket the same way
Dial(c, kind) ==
    /\ sdk[c].kind = "none"
    /\ c = "c1" => kind = "sdk"
    /\ \A d \in Pair : Order(d) < Order(c) => sdk[d].kind # "none"
    /\ sdk' = [sdk EXCEPT ![c] = [NoClient EXCEPT !.kind = kind, !.ready = "connecting",
                                                  !.socket = TRUE]]
    /\ UNCHANGED <<outbox, got>>
    /\ UNCHANGED <<relay, registry, accounts>>

\* initializeCall(): getUserMedia resolves; the client calls it before its
\* socket opens, or not at all
InitializeCall(c) ==
    /\ sdk[c].kind = "sdk"
    /\ sdk[c].ready = "connecting"
    /\ ~sdk[c].localStream
    /\ sdk' = [sdk EXCEPT ![c].localStream = TRUE]
    /\ UNCHANGED <<outbox, got>>
    /\ UNCHANGED <<relay, registry, accounts>>

\* socket.onopen: the SDK sends its connect message
OnOpen(c) ==
    /\ sdk[c].ready = "connecting"
    /\ transport[c] = "open"
    /\ LET st == [sdk[c] EXCEPT !.ready = "open"] IN
       /\ sdk' = [sdk EXCEPT ![c] = st]
       /\ outbox' = [outbox EXCEPT ![c] =
                       IF st.kind = "sdk"
                       THEN sendMessage(st, @, WebRTCMessage("connect", currentUserId(c),
                                                             "", ABSENT))
                       ELSE @]
    /\ UNCHANGED got
    /\ UNCHANGED <<relay, registry, accounts>>

\* a client that is not the SDK sends a frame
RawSend(c, f) ==
    /\ sdk[c].kind = "raw"
    /\ sdk[c].ready = "open"
    /\ Len(outbox[c]) < MaxRawFrames
    /\ outbox' = [outbox EXCEPT ![c] = Append(@, f)]
    /\ UNCHANGED <<sdk, got>>
    /\ UNCHANGED <<relay, registry, accounts>>

\* handleSignallingMessage(message) of the client in state st: the new state
\* and the message it sends, if any
handleSignallingMessage(c, st, m) ==
    LET me == currentUserId(c)
        none == [st |-> st, send |-> <<>>]
    IN  IF m.UserID = me THEN none
        ELSE CASE m.Type = "connect" ->
                    IF st.localStream
                    THEN [st |-> [st EXCEPT !.peerConnections = @ \cup {m.UserID}],
                          send |-> <<WebRTCMessage("offer", me, "X", m.UserID)>>]
                    ELSE none
               [] m.Type = "offer" ->
                    [st |-> [st EXCEPT !.peerConnections = @ \cup {m.UserID}],
                     send |-> <<WebRTCMessage("answer", me, "X", m.UserID)>>]
               [] m.Type = "disconnect" ->
                    [st |-> [st EXCEPT !.peerConnections = @ \ {m.UserID},
                                       !.remoteStreams = @ \ {m.UserID}],
                     send |-> <<>>]
               [] OTHER -> none

\* socket.onmessage: JSON.parse(event.data) throws on a corrupt frame
OnMessage(c) ==
    /\ sdk[c].kind = "sdk"
    /\ sdk[c].ready = "open"
    /\ got[c] < Len(wire[c])
    /\ got' = [got EXCEPT ![c] = @ + 1]
    /\ LET e == wire[c][got[c] + 1]
           h == handleSignallingMessage(c, sdk[c], e.msg)
       IN  IF e.torn
           THEN UNCHANGED <<sdk, outbox>>
           ELSE /\ sdk' = [sdk EXCEPT ![c] = h.st]
                /\ outbox' = [outbox EXCEPT ![c] =
                                IF h.send = <<>> THEN @
                                ELSE sendMessage(h.st, @, h.send[1])]
    /\ UNCHANGED <<relay, registry, accounts>>

\* peerConnection.ontrack: the remote stream of a peer arrives
OnTrack(c, peerId) ==
    /\ peerId \in sdk[c].peerConnections
    /\ peerId \notin sdk[c].remoteStreams
    /\ sdk' = [sdk EXCEPT ![c].remoteStreams = @ \cup {peerId}]
    /\ UNCHANGED <<outbox, got>>
    /\ UNCHANGED <<relay, registry, accounts>>

\* leaveCall(): the disconnect message, then cleanup()
leaveCall(c) ==
    /\ sdk[c].kind = "sdk"
    /\ outbox' = [outbox EXCEPT ![c] =
                    IF sdk[c].socket
                    THEN sendMessage(sdk[c], @, WebRTCMessage("disconnect", currentUserId(c),
                                                              "", ABSENT))
                    ELSE @]
    /\ sdk' = [sdk EXCEPT ![c] = cleanup(sdk[c])]
    /\ UNCHANGED got
    /\ UNCHANGED <<relay, registry, accounts>>

\* socket.onclose, after the client or the relay has closed the connection:
\* cleanup()
OnClose(c) ==
    /\ sdk[c].kind # "none"
    /\ \/ sdk[c].ready = "closing"
       \/ sdk[c].ready \in {"connecting", "open"} /\ transport[c] = "closed"
    /\ sdk' = [sdk EXCEPT ![c] =
                 IF sdk[c].kind = "sdk"
                 THEN cleanup([sdk[c] EXCEPT !.ready = "closed"])
                 ELSE [sdk[c] EXCEPT !.ready = "closed", !.socket = FALSE]]
    /\ UNCHANGED <<outbox, got>>
    /\ UNCHANGED <<relay, registry, accounts>>

\* the relay serving the clients: a connection is upgraded once its client
\* has dialled /ws/A, ReadJSON returns the frames the client has sent, and
\* fails when the client has closed its socket and every frame is read
SdkRelay ==
    \/ \E c \in Pair : sdk[c].ready = "connecting" /\ Upgrade(c, "A")
    \/ \E c \in Pair : MakeRoom(c)
    \/ \E c \in Pair : LoadClients(c)
    \/ \E c \in Pair : Len(outbox[c]) > seq[c] /\ Read(c, outbox[c][seq[c] + 1], MaxSdkFrames)
    \/ \E c \in Pair : /\ sdk[c].ready \in {"closing", "closed"}
                         /\ Len(outbox[c]) = seq[c]
                         /\ ReadErr(c)
    \/ \E c \in Pair : BindInsert(c)
    \/ \E c \in Pair : Connect(c)
    \/ \E c \in Pair : Acked(c)
    \/ \E c \in Pair : Range(c)
    \/ \E c \in Pair, u \in Keys : Forward(c, u)
    \/ \E c \in Pair : Forwarded(c)
    \/ \E c \in Pair, u \in Keys : ForwardLeave(c, u)
    \/ \E c \in Pair : ForwardedLeave(c)
    \/ \E c \in Pair : EndForward(c)
    \/ \E c \in Pair : EndLeave(c)
    \/ Throw

SdkNext ==
    \/ SdkRelay
    \/ \E c \in Pair, kind \in {"sdk", "raw"} : Dial(c, kind)
    \/ \E c \in Pair : InitializeCall(c)
    \/ \E c \in Pair : OnOpen(c)
    \/ \E c \in Pair : \E f \in RawFrames(c) : RawSend(c, f)
    \/ \E c \in Pair : OnMessage(c)
    \/ \E c \in Pair, u \in Users : OnTrack(c, u)
    \/ \E c \in Pair : leaveCall(c)
    \/ \E c \in Pair : OnClose(c)

\* two clients and the relay: the first client is the SDK, the second one
\* the SDK or another WebSocket client
SdkSpec == Init /\ [][SdkNext]_vars

\* ------------------------------------------------------------------------
\* Session API and session registry (controllers)
\* ------------------------------------------------------------------------
\* number of sessions the registry holds at most
MaxSessions == 2

\* strings are sequences of characters, so that Host + Title is \o; a field
\* the JSON body leaves out or leaves empty is the empty string
Hosts == {<<>>, <<"h">>, <<"h", "S">>}

Titles == {<<>>, <<"S", "t">>, <<"t">>}

\* a password of six characters and a shorter one
Secret == <<"s", "e", "c", "r", "e", "t">>

Weak == <<"p", "w">>

Passwords == {Secret, Weak}

\* the JSON bodies posted to /session: two whose Host + Title coincide, two
\* with the same host and title and different passwords, two with the same
\* host and password, one without host, one without title, one whose
\* password is short
Bodies ==
    {b \in [host : Hosts, title : Titles, password : Passwords] :
        \/ /\ b.password = Secret
           /\ b.host = <<>> => b.title = <<"t">>
           /\ b.title = <<>> => b.host = <<"h">>
           /\ ~(b.host = <<"h", "S">> /\ b.title = <<"S", "t">>)
        \/ /\ b.password = Weak
           /\ b.host = <<"h">>
           /\ b.title = <<"S", "t">>}

\* hex(sha1(str)), taken to be collision-free: the digest stands for its input
hashSession(str) == <<"sha1">> \o str

\* utils.HashPassword: the Credential Store's one-way hash
HashPassword(password) == <<"hash">> \o password

\* utils.ComparePasswords(hashed, plain)
ComparePasswords(hashed, plain) == hashed = HashPassword(plain)

\* the least password length the tests accept
MinPassword == 6

\* validateSession of the unit tests; no handler calls it
validateSession(session) ==
    /\ ~(session.host = <<>> \/ session.title = <<>>)
    /\ ~(Len(session.password) < MinPassword)

\* the handles a caller may ask for: every derivable one and an unknown one
Handles == {hashSession(b.host \o b.title) : b \in Bodies} \cup {<<"nosuch">>}

\* the zero value of interfaces.Socket; 0 is the empty SessionID string
Socket == [SessionID |-> 0, HashedURL |-> <<>>, SocketURL |-> <<>>]

\* ctx.JSON(http.StatusBadRequest, gin.H{"error": msg})
BadRequest(msg) == [status |-> 400, error |-> msg]

\* the response of gin's Recovery middleware to a panic in the handler
Recovered == [status |-> 500]

\* collection.FindOne(ctx, bson.M{"hashedUrl": url}) on "sockets": the
\* position of the first matching document, 0 for ErrNoDocuments
FindOne(url) ==
    LET I == {i \in 1..Len(socketsCol) : socketsCol[i].HashedURL = url} IN
    IF I = {} THEN 0 ELSE CHOOSE i \in I : \A j \in I : i <= j

\* a join without the password check
PasswordOkAlways(session, password) == TRUE

\* utils.ComparePasswords(session.Password, []byte(input.Password))
PasswordOk(session, password) == ComparePasswords(session.Password, password)

\* the ctx.JSON calls of ConnectSession for POST /connect/:url, in order
ConnectResponse(url, bodyOk, password) ==
    LET k == FindOne(url)
        found == IF k = 0 THEN Socket ELSE socketsCol[k]
        missing == IF k = 0 THEN <<BadRequest("Socket connection not found.")>> ELSE <<>>
    IN  IF ~bodyOk
        THEN <<BadRequest("bind")>>
        ELSE missing \o
             (IF found.SessionID \notin 1..Len(sessionsCol)
              THEN <<BadRequest("Session not found.")>>
              ELSE LET session == sessionsCol[found.SessionID] IN
                   IF ~PasswordOk(session, password)
                   THEN <<BadRequest("Invalid password.")>>
                   ELSE <<[status |-> 200, title |-> session.Title,
                           socket |-> found.SocketURL]>>)

\* a join that drops the socket document it resolved
ConnectSessionConsume(url, bodyOk, password) ==
    /\ req' = [op |-> "join", url |-> url, bodyOk |-> bodyOk, password |-> password]
    /\ resp' = ConnectResponse(url, bodyOk, password)
    /\ socketsCol' = SelectSeq(socketsCol, LAMBDA x : x.HashedURL # url)
    /\ UNCHANGED <<sessionsCol, created>>
    /\ UNCHANGED relay
    /\ UNCHANGED accounts
    /\ UNCHANGED client

\* POST /connect/:url
ConnectSession(url, bodyOk, password) ==
    /\ req' = [op |-> "join", url |-> url, bodyOk |-> bodyOk, password |-> password]
    /\ resp' = ConnectResponse(url, bodyOk, password)
    /\ UNCHANGED <<sessionsCol, socketsCol, created>>
    /\ UNCHANGED relay
    /\ UNCHANGED accounts
    /\ UNCHANGED client

\* a probe that answers 200 whatever FindOne returned
ProbeResponseFound(id, hasParam) ==
    IF ~hasParam THEN <<Recovered>> ELSE <<[status |-> 200]>>

\* the response of GetSession; without the parameter Query()["url"][0] panics
ProbeResponse(id, hasParam) ==
    IF ~hasParam THEN <<Recovered>>
    ELSE IF FindOne(id) = 0
         THEN <<BadRequest("Socket connection not found.")>>
         ELSE <<[status |-> 200]>>

\* GET /connect?url=id
GetSession(id, hasParam) ==
    /\ req' = [op |-> "probe", url |-> id, hasParam |-> hasParam]
    /\ resp' = ProbeResponse(id, hasParam)
    /\ UNCHANGED <<sessionsCol, socketsCol, created>>
    /\ UNCHANGED relay
    /\ UNCHANGED accounts
    /\ UNCHANGED client

\* CreateSocket(session, ctx, id): the socket document of a session
CreateSocket(session, id) ==
    [SessionID |-> id,
     HashedURL |-> hashSession(session.Host \o session.Title),
     SocketURL |-> hashSession(session.Host \o session.Password)]

\* a session document that keeps the password as it was posted
StoredSessionClear(host, title, password) ==
    [Host |-> host, Title |-> title, Password |-> password]

\* the session document CreateSession inserts: the bound body with its
\* password replaced by utils.HashPassword of it
StoredSession(host, title, password) ==
    [Host |-> host, Title |-> title, Password |-> HashPassword(password)]

\* POST /session; sessOk and sockOk tell whether the two InsertOne calls
\* reach the store: the first one's nil result panics, the second one's error
\* is dropped
CreateSession(host, title, password, bodyOk, sessOk, sockOk) ==
    /\ Len(sessionsCol) < MaxSessions
    /\ req' = [op |-> "create", host |-> host, title |-> title, password |-> password,
               bodyOk |-> bodyOk]
    /\ IF ~bodyOk
       THEN /\ resp' = <<BadRequest("bind")>>
            /\ UNCHANGED <<sessionsCol, socketsCol, created>>
       ELSE IF ~sessOk
       THEN /\ resp' = <<Recovered>>
            /\ UNCHANGED <<sessionsCol, socketsCol, created>>
       ELSE LET session == StoredSession(host, title, password)
                insertedID == Len(sessionsCol) + 1
                inserted == CreateSocket(session, insertedID)
            IN  /\ sessionsCol' = Append(sessionsCol, session)
                /\ socketsCol' = IF sockOk THEN Append(socketsCol, inserted) ELSE socketsCol
                /\ resp' = <<[status |-> 200, socket |-> inserted.HashedURL]>>
                /\ created' = Append(created,
                                 [host |-> host, title |-> title, password |-> password,
                                  handle |-> inserted.HashedURL, id |-> insertedID,
                                  stored |-> sockOk])
    /\ UNCHANGED relay
    /\ UNCHANGED accounts
    /\ UNCHANGED client

RegistryNext ==
    \/ \E b \in Bodies, bodyOk, sessOk, sockOk \in BOOLEAN :
         CreateSession(b.host, b.title, b.password, bodyOk, sessOk, sockOk)
    \/ \E url \in Handles, bodyOk \in BOOLEAN, p \in Passwords :
         ConnectSession(url, bodyOk, p)
    \/ \E id \in Handles, hasParam \in BOOLEAN : GetSession(id, hasParam)

\* the Session API alone: no relay connection is opened
RegistrySpec == Init /\ [][RegistryNext]_vars

\* ------------------------------------------------------------------------
\* Users service (users-service/controllers)
\* ------------------------------------------------------------------------
\* number of ObjectIds the users service hands out at most
MaxUsers == 3

\* the names and passwords a request may carry; "" is a missing or empty field
UserNames == {"", "admin", "ann"}

UserPasswords == {"", "admin", "pw"}

\* utils.GenerateJWT(name, role): the signed claims; HS256 over a byte key
\* does not fail
GenerateJWT(name, role) == <<"jwt", name, role>>

\* a credential check that looks at the name only
MatchesName(user, username, password) == user.Name = username

\* user.Name == credentials.Username && user.Password == credentials.Password
Matches(user, username, password) ==
    user.Name = username /\ user.Password = password

\* the position of the document with _id id in the users collection, 0 if
\* there is none
UserAt(id) ==
    LET I == {i \in 1..Len(usersCol) : usersCol[i].ID = id} IN
    IF I = {} THEN 0 ELSE CHOOSE i \in I : TRUE

\* AddUser.Validate
Validate(name, password) == name # "" /\ password # ""

\* POST /auth; the binding requires both fields, dbOk tells whether
\* userDao.GetAll reaches the store; the first matching user is taken
Authenticate(username, password, dbOk) ==
    /\ call' = [op |-> "auth", username |-> username, password |-> password,
                dbOk |-> dbOk]
    /\ reply' =
         IF username = "" \/ password = ""
         THEN [status |-> 400, error |-> "bind"]
         ELSE IF ~dbOk
         THEN [status |-> 500, error |-> "Database error"]
         ELSE LET I == {i \in 1..Len(usersCol) : Matches(usersCol[i], username, password)} IN
              IF I = {}
              THEN [status |-> 401, error |-> "Invalid credentials"]
              ELSE LET foundUser == usersCol[CHOOSE i \in I : \A j \in I : i <= j] IN
                   [status |-> 200, token |-> GenerateJWT(foundUser.Name, "user"),
                    id |-> foundUser.ID, name |-> foundUser.Name]
    /\ UNCHANGED <<usersCol, newId>>
    /\ UNCHANGED <<relay, registry, client>>

\* POST /users
CreateUser(name, password, dbOk) ==
    /\ newId < MaxUsers
    /\ call' = [op |-> "create", username |-> name, password |-> password, dbOk |-> dbOk]
    /\ IF ~Validate(name, password)
       THEN /\ reply' = [status |-> 400, error |-> "validate"]
            /\ UNCHANGED <<usersCol, newId>>
       ELSE /\ newId' = newId + 1
            /\ IF dbOk
               THEN /\ usersCol' = Append(usersCol, [ID |-> newId + 1, Name |-> name,
                                                     Password |-> password])
                    /\ reply' = [status |-> 201, id |-> newId + 1, name |-> name]
               ELSE /\ usersCol' = usersCol
                    /\ reply' = [status |-> 500, error |-> "Failed to create user"]
    /\ UNCHANGED <<relay, registry, client>>

\* PUT /users/:id
UpdateUser(id, name, password) ==
    /\ call' = [op |-> "update", id |-> id, username |-> name, password |-> password]
    /\ IF ~Validate(name, password)
       THEN /\ reply' = [status |-> 400, error |-> "validate"]
            /\ usersCol' = usersCol
       ELSE IF UserAt(id) = 0
       THEN /\ reply' = [status |-> 404, error |-> "User not found"]
            /\ usersCol' = usersCol
       ELSE /\ usersCol' = [usersCol EXCEPT ![UserAt(id)] =
                               [ID |-> id, Name |-> name, Password |-> password]]
            /\ reply' = [status |-> 200, message |-> "User updated successfully"]
    /\ UNCHANGED newId
    /\ UNCHANGED <<relay, registry, client>>

\* DELETE /users/:id
DeleteUser(id) ==
    /\ call' = [op |-> "delete", id |-> id]
    /\ IF UserAt(id) = 0
       THEN /\ reply' = [status |-> 404, error |-> "User not found"]
            /\ usersCol' = usersCol
       ELSE /\ usersCol' = SelectSeq(usersCol, LAMBDA x : x.ID # id)
            /\ reply' = [status |-> 200, message |-> "User deleted successfully"]
    /\ UNCHANGED newId
    /\ UNCHANGED <<relay, registry, client>>

UsersNext ==
    \/ \E n \in UserNames, p \in UserPasswords, dbOk \in BOOLEAN : Authenticate(n, p, dbOk)
    \/ \E n \in UserNames, p \in UserPasswords, dbOk \in BOOLEAN : CreateUser(n, p, dbOk)
    \/ \E id \in 1..MaxUsers, n \in UserNames, p \in UserPasswords : UpdateUser(id, n, p)
    \/ \E id \in 1..MaxUsers : DeleteUser(id)

\* the users service alone
UsersSpec == Init /\ [][UsersNext]_vars

\* ------------------------------------------------------------------------
\* Properties of the relay
\* ------------------------------------------------------------------------
\* the entries written to connection d
Entries(d) == {wire[d][i] : i \in 1..Len(wire[d])}

\* connection c is bound under some participant id in some member map
Bound(c) == \E m \in Conns, u \in Keys : heap[m][u] = c

\* C1 (room isolation): whatever was written to a connection was received by
\* the relay on a connection that was opened for the same room key.
RoomIsolation ==
    \A d \in Conns : \A e \in Entries(d) : socket[e.from] = socket[d]

\* C1 witness: a message of another connection was forwarded inside room A
\* while a connection opened for room B is admitted and reading.
RoomIsolationWitness ==
    \E d, b \in Conns :
        /\ socket[d] = "A"
        /\ \E e \in Entries(d) : e.kind = "fwd" /\ e.from # d
        /\ socket[b] = "B"
        /\ pc[b] = "read"
        /\ transport[b] = "open"

\* the number of copies of frame n of connection c written to connection d
Copies(d, c, n) ==
    Cardinality({i \in 1..Len(wire[d]) : wire[d][i].from = c /\ wire[d][i].seq = n
                                         /\ wire[d][i].kind = "fwd"})

\* no handler is in the middle of a frame or of its admission
Quiet == \A c \in Conns : pc[c] \in {"idle", "read", "done"}

\* C2 (targeted delivery): a forwarded message whose frame carries a `to` is
\* written only to the connection bound under that participant id.
TargetedDelivery ==
    \A d \in Conns : \A e \in Entries(d) :
        (e.kind = "fwd" /\ e.orig.Type \notin {"connect", "disconnect"} /\ e.orig.To # "")
            => e.key = e.orig.To

\* C3 (no self-delivery): a forwarded message is never written to the
\* connection it was received on.
NoSelfDelivery ==
    \A d \in Conns : \A e \in Entries(d) : e.kind = "fwd" => e.from # d

\* C4 (broadcast delivery): when the range of a frame without `to` is
\* exhausted, every other connection that was and is a member with an open
\* transport holds exactly one copy of that frame.
BroadcastDelivery ==
    \A c \in Conns :
        (pc[c] = "floop" /\ RangeDone(c) /\ frame[c].To = "")
            => \A u \in snap[c] :
                 LET d == heap[clients[c]][u] IN
                 (d \in Conns \ {c} /\ transport[d] = "open")
                     => Copies(d, c, seq[c]) = 1

LeaveRemovesMembership ==
    \A c \in Conns :
        (left[c] /\ pc[c] = "read")
            => /\ heap[clients[c]][message[c].UserID] # c
               /\ \A e \in Entries(c) : ~(e.kind = "fwd" /\ e.from # c /\ e.late)

\* C7 (crash removal): when the handler of a connection has terminated on a
\* read failure without a leave and no handler has anything left to do, the
\* connection is bound in no member map.
CrashRemoval ==
    \A c \in Conns : (pc[c] = "done" /\ ~left[c] /\ Quiet) => ~Bound(c)

\* C10 (payload fidelity): a forwarded message carries exactly the fields of
\* the frame it was forwarded for.
PayloadFidelity ==
    \A d \in Conns : \A e \in Entries(d) : e.kind = "fwd" => e.msg = e.orig

\* the writes made for frame n of connection c: <<connection, position>>
Written(c, n) ==
    UNION {{<<d, i>> : i \in {j \in 1..Len(wire[d]) :
                                wire[d][j].from = c /\ wire[d][j].seq = n}} :
           d \in Conns}

SilentListener ==
    \A c, d \in Conns :
        (/\ Order(d) < Order(c)
         /\ socket[d] = socket[c]
         /\ pc[c] = "floop" /\ RangeDone(c)
         /\ pc[d] = "read" /\ transport[d] = "open" /\ seq[d] = 0)
            => Copies(d, c, seq[c]) >= 1

\* C13 (atomic room creation): the handlers of the connections of one room
\* all work on the same member map.
AtomicRoomCreation ==
    \A c, d \in Conns :
        (socket[c] # "" /\ socket[c] = socket[d] /\ clients[c] # NIL /\ clients[d] # NIL)
            => clients[c] = clients[d]

\* the handler of c is inside an access to its member map: between the lookup
\* and the insert of its binding, or inside a range over the map
InAccess(c) == pc[c] \in {"insert", "floop", "fsend", "dloop", "dsend"}

\* C14 (member-set mutual exclusion): two handlers are never inside an access
\* to the same member map at the same time.
MemberSetExclusion ==
    \A c, d \in Conns :
        (c # d /\ clients[c] # NIL /\ clients[c] = clients[d])
            => ~(InAccess(c) /\ InAccess(d))

\* C15 (single writer per connection): at most one WriteJSON call is in
\* progress on the socket of a connection.
SingleWriter == \A d \in Conns : Cardinality(Writers(d)) <= 1

\* connection c has sent one frame, a `connect`, and is open
Joined(c) ==
    pc[c] = "read" /\ transport[c] = "open" /\ seq[c] = 1 /\ frame[c].Type = "connect"

\* connection c has sent a `connect` and then a `disconnect` with the same
\* userID, and is open
Gone(c) ==
    /\ pc[c] = "read" /\ transport[c] = "open" /\ seq[c] = 2 /\ left[c]
    /\ frame[c].Type = "disconnect"
    /\ \E e \in Entries(c) : e.kind = "ack" /\ e.from = c /\ e.seq = 1
                             /\ e.key = frame[c].UserID

\* C16 (concurrent join/leave consistency): when every connection of a room
\* has sent nothing, has joined, or has joined and left, each under a userID
\* of its own, and all handlers are back at ReadJSON, the member map of the
\* room binds exactly the userIDs that joined and did not leave, each to its
\* own connection.
JoinLeaveConsistency ==
    \A r \in Rooms :
        LET P == {c \in Conns : socket[c] = r}
            J == {c \in P : Joined(c)}
        IN  (/\ J # {}
             /\ \A c \in P : pc[c] = "read" /\ (seq[c] = 0 \/ Joined(c) \/ Gone(c))
             /\ \A c, d \in P : (c # d /\ seq[c] > 0 /\ seq[d] > 0)
                                   => frame[c].UserID # frame[d].UserID)
            => /\ sockets[r] # NIL
               /\ \A u \in Keys :
                    heap[sockets[r]][u] =
                        IF \E c \in J : frame[c].UserID = u
                        THEN CHOOSE c \in J : frame[c].UserID = u
                        ELSE NIL

\* C17 (empty rooms are pruned): no room whose participant has left, whose
\* member map is empty and whose connections have all terminated is still in
\* the map sockets.
EmptyRoomsPruned ==
    \A r \in Rooms :
        ~(/\ sockets[r] # NIL
          /\ Present(heap[sockets[r]]) = {}
          /\ \E c \in Conns : socket[c] = r /\ left[c]
          /\ \A c \in Conns : socket[c] = r => pc[c] = "done")

\* C18 (cleanup on transport close): the step in which the handler blocked in
\* ReadJSON terminates closes the connection and leaves it bound in no member
\* map.
CleanupOnClose ==
    [][\A c \in Conns :
          (pc[c] = "read" /\ pc'[c] = "done")
              => /\ transport'[c] = "closed"
                 /\ \A m \in Conns, u \in Keys : heap'[m][u] # c]_vars

\* C26 (a send failure removes only the broken peer): in the default case,
\* when the Send to the connection under key u returns an error, the step
\* deletes key u and no other key, the sender's included; when it returns
\* nil the message is on the peer's connection and no key is deleted; and
\* the handler goes back to reading only after every other member the range
\* started with has had its Send or is gone, the sender being bound as it was.
SendFailureRemovesPeer ==
    [][\A c \in Conns :
         /\ (pc[c] = "fsend" /\ pc'[c] = "floop")
               => LET d == cur[c].to
                      m == clients[c]
                  IN  IF transport[d] # "open"
                      THEN /\ wire' = wire
                           /\ \A v \in Keys :
                                heap'[m][v] = IF v = cur[c].key THEN NIL ELSE heap[m][v]
                           /\ cur[c].key # message[c].UserID
                      ELSE /\ heap' = heap
                           /\ Len(wire'[d]) = Len(wire[d]) + 1
                           /\ wire'[d][Len(wire'[d])].from = c
                           /\ wire'[d][Len(wire'[d])].seq = seq[c]
         /\ (pc[c] = "floop" /\ pc'[c] = "read")
               => /\ \A u \in snap[c] \ {message[c].UserID} :
                       u \in visited[c] \/ heap[clients[c]][u] = NIL
                  /\ heap' = heap]_vars

\* C26 witness: a handler is in the range of the default case, is bound
\* under its own id, has lost one member it started the range with to a
\* failed Send, and has written the frame to another member.
SendFailureRemovesPeerWitness ==
    \E c \in Conns :
        /\ pc[c] = "floop"
        /\ heap[clients[c]][message[c].UserID] = c
        /\ \E u \in snap[c] \cap visited[c] :
             u # message[c].UserID /\ heap[clients[c]][u] = NIL
        /\ \E d \in Conns \ {c} : \E e \in Entries(d) :
             e.kind = "fwd" /\ e.from = c /\ e.seq = seq[c]

\* C27 (read-failure path): when the handler of a connection that has not
\* just left ends because its read failed, nothing is written to any
\* connection and the connection is bound in no member map afterwards.
ReadFailurePath ==
    [][\A c \in Conns :
         (pc[c] = "read" /\ pc'[c] = "done" /\ ~left[c])
            => /\ wire' = wire
               /\ \A m \in Conns, u \in Keys : heap'[m][u] # c]_vars

\* C28 (leave ordering): while the handler works on a disconnect frame, its
\* own steps leave the sender's key alone as long as the range lasts; a Send
\* that returns an error deletes the key of the failed peer; and the handler
\* is finished with the frame, whether it reads on or ends, only with every
\* other member attempted or gone and the sender's key deleted.
LeaveOrdering ==
    [][\A c \in Conns :
         LET m == clients[c]
             P == message[c].UserID
         IN  /\ (/\ pc[c] \in {"dloop", "dsend"}
                 /\ pc'[c] \in {"dloop", "dsend"}
                 /\ (pc'[c] # pc[c] \/ visited'[c] # visited[c]))
                   => heap'[m][P] = heap[m][P]
             /\ (pc[c] = "dsend" /\ pc'[c] = "dloop" /\ transport[cur[c].to] # "open")
                   => heap'[m][cur[c].key] = NIL
             /\ (pc[c] \in {"dloop", "dsend"} /\ pc'[c] \in {"read", "done"})
                   => /\ heap'[m][P] = NIL
                      /\ pc'[c] = "read"
                           => \A u \in snap[c] \ {P} :
                                u \in visited[c] \/ heap[m][u] = NIL]_vars

\* C29 (connect refreshes the binding): when the handler has processed a
\* connect frame with participant id P on connection c and reads on, the
\* member map binds P to c.
ConnectRefreshesBinding ==
    [][\A c \in Conns :
         (pc[c] = "ack" /\ pc'[c] = "read")
            => heap'[clients[c]][message[c].UserID] = c]_vars

\* C34 (one identity per connection): no connection is bound in a member
\* map under two different participant ids.
OneIdentityPerConnection ==
    \A m \in Conns : \A u, v \in Keys :
        (u # v /\ heap[m][u] # NIL) => heap[m][u] # heap[m][v]

\* C35 (leave is final for the connection): while the handler processes the
\* frame it read right after it had finished a disconnect of the same
\* connection, it binds no participant and starts no Send to a member.
LeaveIsFinal ==
    [][\A c \in Conns :
         c \in after[c]
            => /\ ~(pc[c] = "insert" /\ pc'[c] = "switch")
               /\ ~(pc[c] \in {"floop", "dloop"} /\ pc'[c] \in {"fsend", "dsend"})]_vars

\* C36 (relay admission follows the registry): a room key has a member map
\* only if some socket document of the registry has it as its SocketURL.
AdmissionFollowsRegistry ==
    \A r \in Rooms :
        sockets[r] # NIL => \E i \in 1..Len(socketsCol) : socketsCol[i].SocketURL = <<r>>

\* C37 (cross-room frame): no step of the relay changes the member maps of
\* two rooms, and a step of the handler of a connection changes no member map
\* of a room other than the connection's.
CrossRoomFrame ==
    [][\A c \in Conns : \A r \in Rooms :
         (/\ socket[c] # ""
          /\ socket[c] # r
          /\ sockets[r] # NIL
          /\ \E d \in Conns : socket[d] = socket[c] /\ (pc'[d] # pc[d] \/ visited'[d] # visited[d]))
            => heap'[sockets[r]] = heap[sockets[r]]]_vars

\* C38 (removed peers are closed): the step in which a Send to a member
\* returns an error and the member's key is deleted also closes the
\* member's connection, in the default case as in the disconnect case.
RemovedPeersClosed ==
    [][\A c \in Conns :
         (/\ pc[c] \in {"fsend", "dsend"}
          /\ pc'[c] \in {"floop", "dloop"}
          /\ transport[cur[c].to] # "open")
            => /\ heap'[clients[c]][cur[c].key] = NIL
               /\ transport'[cur[c].to] = "closed"]_vars

\* ------------------------------------------------------------------------
\* Properties of the client SDK
\* ------------------------------------------------------------------------
\* C32 (client leave sequence): the step in which an SDK client that holds a
\* socket closes it on its own (leaveCall) appends, if the socket is open,
\* the disconnect message with the client's userID to the frames sent on
\* that socket, and sends nothing otherwise; after the step the client holds
\* no peer connection, no remote stream, no local stream and no socket.
ClientLeaveSequence ==
    [][\A c \in Pair :
         (sdk[c].kind = "sdk" /\ sdk[c].socket /\ sdk'[c].ready = "closing")
            => /\ outbox'[c] =
                    (IF sdk[c].ready = "open"
                     THEN Append(outbox[c],
                                 [type |-> "disconnect", userID |-> currentUserId(c),
                                  description |-> "", candidate |-> "", to |-> ABSENT])
                     ELSE outbox[c])
               /\ sdk'[c].peerConnections = {}
               /\ sdk'[c].remoteStreams = {}
               /\ ~sdk'[c].localStream
               /\ ~sdk'[c].socket]_vars

\* C32 witness: a client that answered an offer, and so had a peer
\* connection, has sent disconnect as its last frame and has closed its
\* socket; it holds nothing.
ClientLeaveSequenceWitness ==
    \E c \in Pair :
        /\ sdk[c].kind = "sdk"
        /\ sdk[c].ready = "closing"
        /\ \E i \in 1..Len(outbox[c]) : outbox[c][i].type = "answer"
        /\ outbox[c][Len(outbox[c])].type = "disconnect"
        /\ sdk[c].peerConnections = {}
        /\ ~sdk[c].socket

\* C33 (handshake progress between SDK clients): when two SDK clients with
\* local streams have both joined the room, every frame they sent has been
\* processed by the relay and every message written to them has been
\* handled, one of them has received an offer addressed to it from the
\* other, and the other one an answer addressed to it in return.
HandshakeProgress ==
    (\A c \in Pair :
        /\ sdk[c].kind = "sdk"
        /\ sdk[c].ready = "open"
        /\ sdk[c].localStream
        /\ pc[c] = "read"
        /\ seq[c] = Len(outbox[c])
        /\ got[c] = Len(wire[c])
        /\ \E e \in Entries(c) : e.kind = "ack" /\ e.from = c)
    => \E c, d \in Pair :
         /\ c # d
         /\ \E e \in Entries(d) :
              e.from = c /\ e.orig.Type = "offer" /\ e.orig.To = currentUserId(d)
         /\ \E e \in Entries(c) :
              e.from = d /\ e.orig.Type = "answer" /\ e.orig.To = currentUserId(c)

\* ------------------------------------------------------------------------
\* Properties of the session registry
\* ------------------------------------------------------------------------
\* the create-session call whose socket document a join for url resolves to
Resolved(url) == CHOOSE k \in 1..Len(created) : created[k].id = socketsCol[FindOne(url)].SessionID

CreateJoinRoundTrip ==
    \A k \in 1..Len(created) :
        created[k].stored =>
            LET r == ConnectResponse(created[k].handle, TRUE, created[k].password) IN
            /\ Len(r) = 1
            /\ r[1].status = 200
            /\ r[1].title = created[k].title

\* C19 (wrong password and unknown handle are indistinguishable): a join for
\* a handle without socket record and a join with a wrong password for a
\* handle that resolves to a session are answered alike.
JoinFailuresAlike ==
    \A u1, u2 \in Handles :
        \A p1, p2 \in Passwords :
            (/\ FindOne(u1) = 0
             /\ FindOne(u2) # 0
             /\ socketsCol[FindOne(u2)].SessionID \in 1..Len(sessionsCol)
             /\ ~PasswordOk(sessionsCol[socketsCol[FindOne(u2)].SessionID], p2))
                => ConnectResponse(u1, TRUE, p1) = ConnectResponse(u2, TRUE, p2)

\* C20 (unknown handle is a not-found failure): a join with a well-formed
\* body for a handle without socket record is answered by exactly one
\* response, a not-found error without title and connect target.
UnknownHandleNotFound ==
    (req.op = "join" /\ req.bodyOk /\ FindOne(req.url) = 0)
        => /\ Len(resp) = 1
           /\ resp[1].status = 400
           /\ resp[1].error \in {"Socket connection not found.", "Session not found."}

\* C21 (create-session validation): a create-session request that
\* validateSession refuses (empty host, empty title or a password shorter
\* than six characters) is answered by one 400 response, and no create call
\* with such a body has stored a session or socket document.
CreateValidation ==
    /\ (req.op = "create" /\ ~validateSession(req))
          => (Len(resp) = 1 /\ resp[1].status = 400)
    /\ \A k \in 1..Len(created) : validateSession(created[k])

\* C22 (store failures are surfaced): a create-session call that was
\* answered with a handle has stored its socket document, so that the
\* existence probe finds the handle.
StoreFailureSurfaced ==
    (req.op = "create" /\ Len(resp) = 1 /\ resp[1].status = 200)
        => ProbeResponse(resp[1].socket, TRUE) = <<[status |-> 200]>>

\* C23 (handle uniqueness): no two socket documents carry the same handle,
\* and two socket documents with the same connect target carry the same
\* handle.
HandleUniqueness ==
    \A i, j \in 1..Len(socketsCol) :
        i # j => /\ socketsCol[i].HashedURL # socketsCol[j].HashedURL
                 /\ socketsCol[i].SocketURL = socketsCol[j].SocketURL
                      => socketsCol[i].HashedURL = socketsCol[j].HashedURL

ClearPasswordNotStored ==
    \A k \in 1..Len(created) :
        LET clear == created[k].password
            session == sessionsCol[created[k].id]
        IN  /\ ComparePasswords(session.Password, clear)
            /\ session.Password # clear
            /\ \A i \in 1..Len(socketsCol) :
                 socketsCol[i].SessionID = created[k].id
                     => /\ socketsCol[i].HashedURL # clear
                        /\ socketsCol[i].SocketURL # clear

\* C25 witness: a session and its socket document are stored.
ClearPasswordNotStoredWitness ==
    \E k \in 1..Len(created) :
        /\ created[k].stored
        /\ \E i \in 1..Len(socketsCol) : socketsCol[i].SessionID = created[k].id
        /\ sessionsCol[created[k].id].Host = created[k].host

\* C30 (registry reads are side-effect free): a step that answers a join or
\* a probe leaves the sessions and sockets collections as they were, and no
\* step changes or removes a session document once it is stored.
ReadsSideEffectFree ==
    [][/\ req'.op \in {"join", "probe"}
            => (sessionsCol' = sessionsCol /\ socketsCol' = socketsCol)
       /\ \A i \in 1..Len(sessionsCol) :
            i <= Len(sessionsCol') /\ sessionsCol'[i] = sessionsCol[i]]_vars

\* C30 witness: a join was answered 200 and a session created before it is
\* stored with the host, title and password hash of its creation.
ReadsSideEffectFreeWitness ==
    /\ req.op = "join"
    /\ Len(resp) = 1
    /\ resp[1].status = 200
    /\ \E k \in 1..Len(created) :
         sessionsCol[created[k].id] =
             StoredSession(created[k].host, created[k].title, created[k].password)

\* ------------------------------------------------------------------------
\* Properties of the users service
\* ------------------------------------------------------------------------
\* some stored user has the name and the password of the last request
Known == \E i \in 1..Len(usersCol) :
             usersCol[i].Name = call.username /\ usersCol[i].Password = call.password

\* the reply is a 200 with a token and the id and name of a stored user
\* with the credentials of the last request
Granted ==
    /\ reply.status = 200
    /\ reply.token = GenerateJWT(call.username, "user")
    /\ reply.name = call.username
    /\ \E i \in 1..Len(usersCol) :
         /\ usersCol[i].ID = reply.id
         /\ usersCol[i].Name = call.username
         /\ usersCol[i].Password = call.password

\* the reply is the 401 "Invalid credentials"
Denied == reply = [status |-> 401, error |-> "Invalid credentials"]

\* C31 as claimed (users-service authentication): POST /auth is answered 200
\* with a token and the user's id and name if some stored user has the
\* supplied name and password, and otherwise 401 "Invalid credentials".
AuthIffStored ==
    call.op = "auth" => IF Known THEN Granted ELSE Denied

\* C31 amended: for a body that carries a username and a password, and with
\* the users collection readable, POST /auth is answered 200 with a token and
\* the user's id and name if some stored user has the supplied name and
\* password, and otherwise 401 "Invalid credentials"; a body without one of
\* the two fields is answered 400 and an unreadable collection 500, both
\* without a token.
AuthIffStoredBound ==
    call.op = "auth" =>
        IF call.username = "" \/ call.password = ""
        THEN reply.status = 400
        ELSE IF ~call.dbOk
        THEN reply.status = 500
        ELSE IF Known THEN Granted ELSE Denied

\* C31 witness: an authentication was granted while another stored user has
\* the same name with another password.
AuthIffStoredWitness ==
    /\ call.op = "auth"
    /\ reply.status = 200
    /\ \E i \in 1..Len(usersCol) :
         usersCol[i].Name = call.username /\ usersCol[i].Password # call.password

\* C39 (handle derivation is injective): two create-session calls returned
\* the same handle exactly if they had the same host and the same title.
HandleInjective ==
    \A j, k \in 1..Len(created) :
        (created[j].handle = created[k].handle)
            <=> (created[j].host = created[k].host /\ created[j].title = created[k].title)

====
